---- MODULE Spec2Model ----
(***************************************************************************)
(* Hunyuan-3D-v3: the job workflow of the API client                       *)
(* (src/hunyuan_3d/api_client.py), of the batch node                       *)
(* (src/hunyuan_3d/batch_nodes.py) and of the batch script                 *)
(* (src/batch_hunyuan3d.py).                                               *)
(*                                                                         *)
(* Strings built by f-strings are sequences of their parts, so "the        *)
(* message contains X" is "X is one of the parts".  A progress percent is  *)
(* the exact rational num / PDen(max_wait_time), kept as its numerator.    *)
(***************************************************************************)
EXTENDS Integers, Sequences, FiniteSets, TLC

\* ---------------------------------------------------------------- bounds
\* wait calls are explored up to this many poll ticks
MaxTicks == 4
\* max_wait_time takes every value of -1..MaxSmallWait (and a few large ones)
MaxSmallWait == 4
\* a status query takes 0..MaxLatency seconds to answer
MaxLatency == 1

\* ------------------------------------------------------ program constants
\* wait_for_task_completion(..., poll_interval: int = 5, ...)
DefaultPollInterval == 5
\* estimated_total = 150  # Average generation time
EstimatedTotal == 150

Min(a, b) == IF a <= b THEN a ELSE b

CeilDiv(a, b) == IF a <= 0 THEN 0 ELSE (a + b - 1) \div b

Range(s) == {s[i] : i \in 1..Len(s)}

\* `part in message`, for messages kept as the sequence of their parts
Contains(msg, part) == part \in Range(msg)

\* ------------------------------------------------------------ the remote
\* The job identifiers the remote hands out.
JobIds == {"job-1", "job-2"}

\* The state of the remote job; "none" is a job whose query response carries
\* no Status field.
RemoteStatuses == {"WAIT", "RUN", "DONE", "FAIL", "none"}

Terminal == {"DONE", "FAIL"}

\* ErrorCode and ErrorMessage of a failed job, as the remote reports them.
RemoteErrors ==
    { [ErrorCode |-> "ResourceInsufficient", ErrorMessage |-> "quota used up"],
      [ErrorCode |-> "InternalError", ErrorMessage |-> "try again"] }

\* One entry of ResultFile3Ds; the last one carries no Url field.
RawFiles ==
    { [Type |-> "GLB", Url |-> "http://x/model.glb"],
      [Type |-> "GLB", Url |-> "http://x/lod1.glb"],
      [Type |-> "OBJ", Url |-> "http://x/model.obj"],
      [Type |-> "glb", Url |-> "http://x/lower.glb"],
      [Type |-> "GLB"] }

RawFileLists ==
    {<<>>} \cup {<<f>> : f \in RawFiles}
           \cup {<<f, g>> : f \in {x \in RawFiles : x.Type # "GLB"}, g \in RawFiles}

\* resp["Response"] of QueryHunyuanTo3DProJob for a job in state rs: a record
\* whose optional fields may be absent.
Responses(rs) ==
    CASE rs = "none" -> { [RequestId |-> "r"] }
      [] rs = "FAIL" -> { [RequestId |-> "r", Status |-> "FAIL"] }
                        \cup { [RequestId |-> "r", Status |-> "FAIL",
                                ErrorCode |-> e.ErrorCode,
                                ErrorMessage |-> e.ErrorMessage] : e \in RemoteErrors }
      [] rs = "DONE" -> { [RequestId |-> "r", Status |-> "DONE"] }
                        \cup { [RequestId |-> "r", Status |-> "DONE",
                                ResultFile3Ds |-> fl] : fl \in RawFileLists }
      [] OTHER       -> { [RequestId |-> "r", Status |-> rs] }

\* What a raising call_json (run in the executor) raises: a
\* TencentCloudSDKException with its code and message, or another exception.
RemoteFailures ==
    { [sdk |-> TRUE, class |-> "TencentCloudSDKException",
       code |-> "ResourceInsufficient", message |-> "no quota"],
      [sdk |-> FALSE, class |-> "RuntimeError",
       code |-> "", message |-> "cannot schedule new futures after shutdown"] }

\* dict.get(key, default)
Get(d, key, default) == IF key \in DOMAIN d THEN d[key] ELSE default

\* error_hints of _format_error: the expanded explanation of a known code
ErrorHints(code) ==
    CASE code = "ResourceInsufficient" -> "hint: KAYNAK YETERSIZ (ResourceInsufficient)"
      [] code = "AuthFailure"          -> "hint: KIMLIK DOGRULAMA HATASI (AuthFailure)"
      [] code = "LimitExceeded"        -> "hint: LIMIT ASILDI (LimitExceeded)"
      [] code = "InvalidParameter"     -> "hint: GECERSIZ PARAMETRE (InvalidParameter)"
      [] OTHER                         -> ""

\* _format_error(e): f"[{error_code}] {error_message}\n{hint}"
FormatError(code, message) == <<"[", code, "] ", message, "\n", ErrorHints(code)>>

\* --------------------------------------------------------------- state
VARIABLES
    kind,             \* the entry point exercised: "wait", "submit", "download", "cleanup", "batch", "script", "text", "image"
    \* wait_for_task_completion: its arguments, locals and position
    wait_job_id, max_wait_time, poll_interval, has_callback,
    elapsed_time, started_running, run_start_time,
    wpc,              \* "idle", "query", "sleep", "returned", "raised"
    status,           \* result["status"] of the latest query ("unset" before the first)
    last_response,    \* resp["Response"] of the latest query that answered
    result,           \* the latest query result
    wait_error,       \* the message of the exception the wait raised
    wait_exc,         \* and its class
    \* the remote job
    remote_status,
    done_at,          \* <<t>>: the remote marked the job DONE t seconds into the wait
    \* observation of one wait call
    wall_time,        \* seconds since the call began
    calls,            \* the progress_callback invocations, in order
    n_queries, n_sleeps, after_terminal,
    queried,          \* the job identifiers the status queries of the workflow carried
    \* the entry point: batch_generate, main or generate_3d
    loop_state,       \* the event loop on entry: "running", "idle" or "none"
    branch,           \* "main", or "fallback" once the RuntimeError handler runs
    bpc,              \* "init", "running", "done", "raised"
    prompt,           \* the text node's prompt, a sequence of characters
    image_files,      \* the input images, in processing order
    batch_wait_time,  \* the max_wait_time the entry point passes on
    idx,              \* enumerate(image_files, 1)
    results, successful, failed,
    returned,         \* what the entry point returned
    \* one run of the item workflow (_process_single_image, process_image,
    \* _async_generate)
    ipc,              \* "idle", "submit", "wait", "download"
    job_id, download_url, output_path,
    \* observation of the workflow
    submit_log,       \* the submit calls made: the item, the outcomes recorded by then, the answer
    started,          \* the items whose processing began, in order
    fetched,          \* the items whose model file was downloaded and written
    saved,            \* what session.get and response.read did in those downloads
    \* one call of text_to_3d or image_to_3d on its own
    sop,              \* "text" or "image"; "none" outside such a call
    sargs,            \* enable_pbr, face_count, generate_type, polygon_type
    spc,              \* "idle", "called", "sent", "returned", "raised"
    sent,             \* the payloads handed to call_json, in order
    sanswer,          \* what the remote did with the latest payload
    sout,             \* the job identifier returned or the exception raised
    \* one call of download_model on its own
    dpc,              \* "idle", "get", "read", "returned", "raised"
    dargs,            \* url and output_path
    dest,             \* what the file at output_path holds; "absent" without one
    dbefore,          \* what it held when the call began
    danswer,          \* what session.get and response.read did
    dout,             \* the path returned or the exception raised
    \* the configuration node and the client an entry point builds
    cpc,              \* create_config: "call", "built", "raised"
    cargs,            \* secret_id, secret_key and region as entered
    config,           \* the configuration it returned
    cout,             \* the exception it raised
    client,           \* the credentials TencentCloudAPIClient was constructed with
    \* cleanup_old_files on its own, called once and then once more
    fpc,              \* "idle", "cleaned", "again"
    directory,        \* whether the directory exists, and its entries in listing order
    fbefore,          \* the directory when the latest call began
    fargs,            \* max_age_hours, max_files and what time.time() returned
    fout,             \* the count the latest call returned
    flog,             \* what the latest call logged, in order
    fattempts         \* the names the latest call handed to delete_file, in order

waitVars == <<wait_job_id, max_wait_time, poll_interval, has_callback,
              elapsed_time, started_running, run_start_time, wpc, status,
              last_response, result, wait_error, wait_exc, wall_time, calls, n_queries, n_sleeps,
              after_terminal>>

remoteVars == <<remote_status, done_at>>

driverVars == <<loop_state, branch, bpc, prompt, image_files, batch_wait_time,
                idx, results, successful, failed, returned>>

itemVars == <<ipc, job_id, download_url, output_path>>

histVars == <<submit_log, started, fetched, saved>>

configVars == <<cpc, cargs, config, cout, client>>

callerVars == <<kind, driverVars, itemVars, histVars, configVars>>

submitVars == <<sop, sargs, spc, sent, sanswer, sout>>

downloadVars == <<dpc, dargs, dest, dbefore, danswer, dout>>

cleanupVars == <<fpc, directory, fbefore, fargs, fout, flog, fattempts>>

clientVars == <<submitVars, downloadVars, cleanupVars>>

vars == <<waitVars, remoteVars, queried, callerVars, clientVars>>

NoResponse == [RequestId |-> ""]

NoResult == [status |-> "unset", result_urls |-> <<>>,
             error_code |-> "", error_message |-> ""]

\* --------------------------------------------------- query_task_status
\* The result_urls entry built from one ResultFile3Ds entry.
FileInfo(f) == [url |-> Get(f, "Url", ""), type |-> Get(f, "Type", "")]

\* The condition under which the result files are copied into the result.
CopiesFiles(st, response) == st = "DONE" /\ "ResultFile3Ds" \in DOMAIN response

\* The result dictionary query_task_status builds from resp["Response"].
QueryTaskStatus(response) ==
    LET st == Get(response, "Status", "")
    IN  [status        |-> st,
         result_urls   |-> IF CopiesFiles(st, response)
                           THEN [i \in 1..Len(response["ResultFile3Ds"]) |->
                                    FileInfo(response["ResultFile3Ds"][i])]
                           ELSE <<>>,
         error_code    |-> Get(response, "ErrorCode", ""),
         error_message |-> Get(response, "ErrorMessage", "")]

\* The message query_task_status raises when the remote call raises.
QueryErrorMessage(e) ==
    IF e.sdk THEN <<"API error ", e.code, ": ", e.message>> ELSE <<e.message>>

\* The class of what query_task_status raises: an SDK exception is wrapped in
\* Exception, any other is re-raised as it is.
QueryErrorClass(e) == IF e.sdk THEN "Exception" ELSE e.class

\* ------------------------------------------- wait_for_task_completion
\* The denominator of every percent of a wait with max_wait_time m.
PDen(m) == EstimatedTotal * m

\* The percent k as a numerator over PDen(m).
Pct(k, m) == k * PDen(m)

\* The queue estimate scaled to the whole range instead of its tenth.
WaitProgressScaled(e, m) == Min(Pct(100, m), e * 100 * EstimatedTotal)

\* min(10, (elapsed_time / max_wait_time) * 10)
WaitProgress(e, m) == Min(Pct(10, m), e * 10 * EstimatedTotal)

\* The running estimate without its cap.
RunProgressUncapped(run_time, m) == Pct(10, m) + run_time * 85 * m

\* 10 + min(85, (run_time / estimated_total) * 85)
RunProgress(run_time, m) == Pct(10, m) + Min(Pct(85, m), run_time * 85 * m)

\* progress = 95 of the else branch
ElseProgress(m) == Pct(95, m)

\* run_start_time after the RUN branch's first-time assignment
RunStartTime(st, sr, rst, e) == IF st = "RUN" /\ ~sr THEN e ELSE rst

\* The estimated progress of a tick with status st.
Progress(st, e, m, rst) ==
    CASE st = "WAIT" -> WaitProgress(e, m)
      [] st = "RUN"  -> RunProgress(e - rst, m)
      [] OTHER       -> ElseProgress(m)

\* int(progress)
IntPart(p, m) == p \div PDen(m)

\* status_msg of a tick
StatusMsg(st, p, m) ==
    CASE st = "WAIT" -> <<"Kuyrukta bekliyor... (", IntPart(p, m), "%)">>
      [] st = "RUN"  -> <<"3D model olusturuluyor... (", IntPart(p, m), "%)">>
      [] OTHER       -> <<"Isleniyor... (", IntPart(p, m), "%)">>

\* The percent of the completion callback of a DONE tick.
DonePercent(m) == Pct(100, m)

\* A tick that reports only a job still under way or done: the terminal
\* tests come before the callback.
TickCallsAfterFailTest(st, p, m, cb, tick) ==
    IF ~cb \/ st = "FAIL" THEN <<>>
    ELSE <<[percent |-> p, message |-> StatusMsg(st, p, m),
            status |-> st, tick |-> tick]>>

\* The progress_callback invocations of one tick, in order; tick and status
\* record which tick made them.
TickCalls(st, p, m, cb, tick) ==
    IF ~cb THEN <<>>
    ELSE <<[percent |-> p, message |-> StatusMsg(st, p, m),
            status |-> st, tick |-> tick]>>
         \o (IF st = "DONE"
             THEN <<[percent |-> DonePercent(m), message |-> <<"Tamamlandi!">>,
                     status |-> st, tick |-> tick]>>
             ELSE <<>>)

\* A tick that treats FAIL like a status still in progress.
TickOutcomeNoRaise(st) == IF st = "DONE" THEN "returned" ELSE "sleep"

\* Where a tick with status st leaves the loop: it returns, raises or sleeps.
TickOutcome(st) ==
    IF st = "DONE" THEN "returned"
    ELSE IF st = "FAIL" THEN "raised"
    ELSE "sleep"

\* A failure message that leaves the remote code out.
TaskFailedMessageNoCode(r) == <<"Task failed: ", r.error_message>>

\* f"Task failed: {result['error_code']} - {result['error_message']}"
TaskFailedMessage(r) == <<"Task failed: ", r.error_code, " - ", r.error_message>>

\* f"Task did not complete within {max_wait_time} seconds"
TimeoutMessage(m) == <<"Task did not complete within ", m, " seconds">>

\* A loop test that admits one more tick at the bound.
LoopContinuesAtBound(e, m) == e <= m

\* while elapsed_time < max_wait_time
LoopContinues(e, m) == e < m

\* The loop test: the next query, or the timeout raised after the loop.
LoopTest(e, m) ==
    IF LoopContinues(e, m)
    THEN wpc' = "query" /\ wait_error' = <<>> /\ wait_exc' = "none"
    ELSE wpc' = "raised" /\ wait_error' = TimeoutMessage(m) /\ wait_exc' = "Exception"

\* A call of wait_for_task_completion(jid, m, pi, progress_callback) up to its
\* first await.
WaitEnter(jid, m, pi, cb) ==
    /\ wait_job_id' = jid
    /\ max_wait_time' = m
    /\ poll_interval' = pi
    /\ has_callback' = cb
    /\ elapsed_time' = 0
    /\ started_running' = FALSE
    /\ run_start_time' = 0
    /\ status' = "unset"
    /\ last_response' = NoResponse
    /\ result' = NoResult
    /\ wall_time' = 0
    /\ calls' = <<>>
    /\ n_queries' = 0
    /\ n_sleeps' = 0
    /\ after_terminal' = 0
    /\ LoopTest(0, m)

\* Whether a further query or sleep follows a terminal status.
PastTerminal == IF status \in Terminal THEN 1 ELSE 0

\* How long a status query takes.  No code reads the clock, so the time of a
\* query is followed only for the wait on its own; in the workflows every
\* query is taken to answer at once.
Latencies == IF kind = "wait" THEN 0..MaxLatency ELSE {0}

\* One poll tick: the status query answers, the progress is estimated and
\* reported, and the tick returns, raises or goes to sleep.
WaitPoll ==
    /\ wpc = "query"
    /\ UNCHANGED clientVars
    /\ \E d \in Latencies, response \in Responses(remote_status) :
         LET r   == QueryTaskStatus(response)
             st  == r.status
             rst == RunStartTime(st, started_running, run_start_time, elapsed_time)
             p   == Progress(st, elapsed_time, max_wait_time, rst)
         IN  /\ last_response' = response
             /\ result' = r
             /\ status' = st
             /\ started_running' = (started_running \/ st = "RUN")
             /\ run_start_time' = rst
             /\ calls' = calls \o TickCalls(st, p, max_wait_time, has_callback,
                                            n_queries + 1)
             /\ wpc' = TickOutcome(st)
             /\ wait_error' = IF TickOutcome(st) = "raised"
                              THEN TaskFailedMessage(r) ELSE <<>>
             /\ wait_exc' = IF TickOutcome(st) = "raised" THEN "Exception" ELSE "none"
             /\ wall_time' = wall_time + d
    /\ n_queries' = n_queries + 1
    /\ after_terminal' = after_terminal + PastTerminal
    /\ queried' = queried \cup {wait_job_id}
    /\ UNCHANGED <<callerVars, wait_job_id, max_wait_time, poll_interval,
                   has_callback, elapsed_time, n_sleeps, remoteVars>>

\* The status query raises: query_task_status re-raises and so does the wait.
WaitQueryRaises ==
    /\ wpc = "query"
    /\ UNCHANGED clientVars
    /\ \E d \in Latencies, e \in RemoteFailures :
         /\ wait_error' = QueryErrorMessage(e)
         /\ wait_exc' = QueryErrorClass(e)
         /\ wall_time' = wall_time + d
    /\ wpc' = "raised"
    /\ n_queries' = n_queries + 1
    /\ after_terminal' = after_terminal + PastTerminal
    /\ queried' = queried \cup {wait_job_id}
    /\ UNCHANGED <<callerVars, wait_job_id, max_wait_time, poll_interval,
                   has_callback, elapsed_time, started_running, run_start_time,
                   status, last_response, result, calls, n_sleeps, remoteVars>>

\* await asyncio.sleep(poll_interval); elapsed_time += poll_interval; then the
\* loop test.
WaitSleep ==
    /\ wpc = "sleep"
    /\ UNCHANGED clientVars
    /\ elapsed_time' = elapsed_time + poll_interval
    /\ wall_time' = wall_time + poll_interval
    /\ n_sleeps' = n_sleeps + 1
    /\ after_terminal' = after_terminal + PastTerminal
    /\ LoopTest(elapsed_time + poll_interval, max_wait_time)
    /\ UNCHANGED <<callerVars, queried, wait_job_id, max_wait_time,
                   poll_interval, has_callback, started_running, run_start_time,
                   status, last_response, result, calls, n_queries, remoteVars>>

\* The remote moves the job to another state while a wait is under way; a
\* terminal state is final.
RemoteChange ==
    /\ wpc \in {"query", "sleep"}
    /\ UNCHANGED clientVars
    /\ remote_status \notin Terminal
    /\ \E rs \in RemoteStatuses \ {remote_status} :
         /\ remote_status' = rs
         /\ done_at' = IF rs = "DONE" THEN <<wall_time>> ELSE done_at
    /\ UNCHANGED <<callerVars, queried, waitVars>>

\* ------------------------------------------------ the wait on its own
\* max_wait_time and poll_interval of the calls explored
MaxWaitTimes == (-1..MaxSmallWait) \cup {10, 12, 300, 600}

PollIntervals == {1, 2, DefaultPollInterval, 100, 200}

WaitInputs ==
    {mp \in MaxWaitTimes \X PollIntervals : CeilDiv(mp[1], mp[2]) <= MaxTicks}

\* ------------------------------------------- the configuration node
NoExc == [class |-> "none", msg |-> <<>>]

Exc(class, msg) == [class |-> class, msg |-> msg]

\* str.strip(): the string without its leading and trailing blanks
RECURSIVE StripLeft(_)
StripLeft(str) ==
    IF str # <<>> /\ Head(str) = " " THEN StripLeft(Tail(str)) ELSE str

RECURSIVE StripRight(_)
StripRight(str) ==
    IF str # <<>> /\ str[Len(str)] = " "
    THEN StripRight(SubSeq(str, 1, Len(str) - 1))
    ELSE str

Strip(str) == StripRight(StripLeft(str))

\* The strings entered as secret id and secret key, and the one region the
\* node offers.
SecretIds == { <<>>, <<" ">>, <<"i">>, <<" ", "i", " ">> }

SecretKeys == { <<>>, <<" ">>, <<"k">>, <<" ", "k", " ">> }

Regions == { "ap-singapore" }

NoConfig == [secret_id |-> <<>>, secret_key |-> <<>>, region |-> "none"]

NoClient == [secret_id |-> <<>>, secret_key |-> <<>>, region |-> "none"]

\* A configuration node that keeps the strings as they were entered.
CreateConfigUnchecked(secret_id, secret_key, region) ==
    [exc |-> NoExc,
     config |-> [secret_id |-> secret_id, secret_key |-> secret_key,
                 region |-> region]]

\* create_config: ValueError for a secret id or key that is blank after
\* strip(), otherwise the configuration with both stripped.
CreateConfig(secret_id, secret_key, region) ==
    IF Strip(secret_id) = <<>>
    THEN [exc |-> Exc("ValueError", <<"Secret ID cannot be empty">>), config |-> NoConfig]
    ELSE IF Strip(secret_key) = <<>>
    THEN [exc |-> Exc("ValueError", <<"Secret Key cannot be empty">>), config |-> NoConfig]
    ELSE [exc |-> NoExc,
          config |-> [secret_id |-> Strip(secret_id),
                      secret_key |-> Strip(secret_key),
                      region |-> region]]

\* TencentCloudAPIClient(secret_id=config["secret_id"], ...): the client
\* keeps what it is given.
TencentCloudAPIClient(secret_id, secret_key, region) ==
    [secret_id |-> secret_id, secret_key |-> secret_key, region |-> region]

\* The client the node or the batch node builds once its inputs passed.
NodeClient == TencentCloudAPIClient(config.secret_id, config.secret_key, config.region)

\* The client of the script, built from the constants of its module.
ScriptClient == TencentCloudAPIClient(<<"SECRET_ID">>, <<"SECRET_KEY">>, "REGION")

\* The credentials of a workflow whose configuration node has run.
EnteredCredentials ==
    [secret_id |-> <<" ", "i", " ">>, secret_key |-> <<"k">>, region |-> "ap-singapore"]

\* The configuration node has produced the configuration the entry point is
\* given.
ConfigBuilt ==
    /\ cpc = "built"
    /\ cargs = EnteredCredentials
    /\ config = CreateConfig(cargs.secret_id, cargs.secret_key, cargs.region).config
    /\ cout = NoExc
    /\ client = NoClient

\* One call of create_config with the strings entered.
ConfigCreate ==
    /\ kind \in {"text", "image", "batch"}
    /\ cpc = "call"
    /\ \E secret_id \in SecretIds, secret_key \in SecretKeys, region \in Regions :
         LET out == CreateConfig(secret_id, secret_key, region)
         IN  /\ cargs' = [secret_id |-> secret_id, secret_key |-> secret_key,
                          region |-> region]
             /\ cpc' = IF out.exc = NoExc THEN "built" ELSE "raised"
             /\ config' = out.config
             /\ cout' = out.exc
    /\ UNCHANGED <<client, kind, driverVars, itemVars, histVars, queried, waitVars,
                   remoteVars, clientVars>>

\* No wait is under way: the frame of wait_for_task_completion does not exist.
WaitIdle ==
    /\ wait_job_id = ""
    /\ max_wait_time = 0
    /\ poll_interval = DefaultPollInterval
    /\ has_callback = FALSE
    /\ elapsed_time = 0
    /\ started_running = FALSE
    /\ run_start_time = 0
    /\ wpc = "idle"
    /\ status = "unset"
    /\ last_response = NoResponse
    /\ result = NoResult
    /\ wait_error = <<>>
    /\ wait_exc = "none"
    /\ wall_time = 0
    /\ calls = <<>>
    /\ n_queries = 0
    /\ n_sleeps = 0
    /\ after_terminal = 0

\* Before any entry point has run: no item, no result, no remote call.
CallerIdle ==
    /\ loop_state = "idle"
    /\ branch = "main"
    /\ bpc = "init"
    /\ idx = 0
    /\ results = <<>>
    /\ successful = 0
    /\ failed = 0
    /\ returned = [kind |-> "nothing"]
    /\ ipc = "idle"
    /\ job_id = ""
    /\ download_url = ""
    /\ output_path = <<>>
    /\ submit_log = <<>>
    /\ started = <<>>
    /\ fetched = {}
    /\ saved = {}
    /\ queried = {}
    /\ remote_status = "WAIT"
    /\ done_at = <<>>

\* the bounds of face_count declared by the nodes, and its default
MinFaceCount == 40000

MaxFaceCount == 1500000

DefaultFaceCount == 500000

\* The arguments of a submit call when none is under way: the defaults.
DefaultArgs ==
    [input |-> "", enable_pbr |-> FALSE, face_count |-> DefaultFaceCount,
     generate_type |-> "Normal", polygon_type |-> "triangle"]

NoAnswer == [raises |-> FALSE, response |-> [RequestId |-> ""], failure |-> [sdk |-> FALSE]]

NoOutcome == [raised |-> FALSE, value |-> "", exc |-> [class |-> "none", msg |-> <<>>]]

\* No directory is being cleaned.
NoDirectory == [exists |-> FALSE, entries |-> <<>>]

CleanupIdle ==
    /\ fpc = "idle"
    /\ directory = NoDirectory
    /\ fbefore = NoDirectory
    /\ fargs = [max_age_hours |-> 0, max_files |-> 0, current_time |-> 0]
    /\ fout = 0
    /\ flog = <<>>
    /\ fattempts = <<>>

\* No call of text_to_3d or image_to_3d on its own is under way.
ClientIdle ==
    /\ sop = "none"
    /\ sargs = DefaultArgs
    /\ spc = "idle"
    /\ sent = <<>>
    /\ sanswer = NoAnswer
    /\ sout = NoOutcome
    /\ dpc = "idle"
    /\ dargs = [url |-> "", output_path |-> <<>>]
    /\ dest = "absent"
    /\ dbefore = "absent"
    /\ danswer = [connects |-> FALSE, http |-> 0, reads |-> FALSE]
    /\ dout = NoOutcome

InitWait ==
    /\ kind = "wait"
    /\ ClientIdle
    /\ CleanupIdle
    /\ prompt = <<>>
    /\ image_files = <<>>
    /\ batch_wait_time = 0
    /\ WaitIdle
    /\ CallerIdle
    /\ ConfigBuilt

\* A caller awaits wait_for_task_completion for a job submitted earlier, which
\* the remote holds in any state.
WaitCall ==
    /\ kind = "wait"
    /\ UNCHANGED clientVars
    /\ wpc = "idle"
    /\ \E jid \in JobIds, mp \in WaitInputs, cb \in BOOLEAN :
         WaitEnter(jid, mp[1], mp[2], cb)
    /\ \E rs \in RemoteStatuses :
         /\ remote_status' = rs
         /\ done_at' = IF rs = "DONE" THEN <<0>> ELSE <<>>
    /\ UNCHANGED <<callerVars, queried>>

NextWait == WaitCall \/ WaitPoll \/ WaitQueryRaises \/ WaitSleep \/ RemoteChange

SpecWait == InitWait /\ [][NextWait]_vars

\* ------------------------------------------------ the item workflow
\* how many input images a run holds at most
MaxImages == 2
\* a batch entry point passes a max_wait_time of up to this many poll intervals
MaxBatchTicks == 2
\* and a single node one of up to this many
MaxNodeTicks == 4

\* sorted(files): the files of the set S in ascending order
Sorted(S) ==
    CHOOSE q \in [1..Cardinality(S) -> S] :
        \A i, j \in 1..Cardinality(S) : i < j => q[i] < q[j]

\* _get_image_files: sorted(files)[:max_images]
GetImageFiles(S, max_images) ==
    SubSeq(Sorted(S), 1, Min(max_images, Cardinality(S)))

\* str(image_path)
ImagePath(image) == <<"input/", image>>

\* f"{image_path.stem}_3d.glb" inside the output folder
OutputPath(image) == <<"output/", image, "_3d.glb">>

\* The job identifier the remote issues to the n-th submission of a run:
\* consecutive submissions get different identifiers.
IssuedJobId(n) == IF n % 2 = 1 THEN "job-1" ELSE "job-2"

\* resp["Response"] of the n-th SubmitHunyuanTo3DProJob: a JobId, an empty
\* JobId, or no JobId field.
SubmitResponses(n) ==
    { [RequestId |-> "r", JobId |-> j] : j \in {IssuedJobId(n), ""} }
    \cup { [RequestId |-> "r"] }

\* What the submit call does: it answers, or it raises.
SubmitAnswers(n) ==
    { [raises |-> FALSE, response |-> r, failure |-> [sdk |-> FALSE]] :
        r \in SubmitResponses(n) }
    \cup { [raises |-> TRUE, response |-> [RequestId |-> ""], failure |-> f] :
        f \in RemoteFailures }

\* A submit that reads the job identifier with a default instead of indexing.
ClientSubmitLenient(ans) ==
    IF ans.raises
    THEN [raised |-> TRUE, value |-> "",
          exc |-> IF ans.failure.sdk
                  THEN Exc("Exception",
                           FormatError(ans.failure.code, ans.failure.message))
                  ELSE Exc(ans.failure.class, <<ans.failure.message>>)]
    ELSE [raised |-> FALSE, value |-> Get(ans.response, "JobId", ""), exc |-> NoExc]

\* text_to_3d / image_to_3d: the job identifier returned, or the exception
\* raised (an SDK exception becomes Exception(_format_error(e)), any other
\* one, the KeyError of a response without JobId included, is re-raised).
ClientSubmit(ans) ==
    IF ans.raises
    THEN [raised |-> TRUE, value |-> "",
          exc |-> IF ans.failure.sdk
                  THEN Exc("Exception",
                           FormatError(ans.failure.code, ans.failure.message))
                  ELSE Exc(ans.failure.class, <<ans.failure.message>>)]
    ELSE IF "JobId" \notin DOMAIN ans.response
    THEN [raised |-> TRUE, value |-> "", exc |-> Exc("KeyError", <<"'JobId'">>)]
    ELSE [raised |-> FALSE, value |-> ans.response["JobId"], exc |-> NoExc]

\* A test that lets every submit result pass.
AnyJobId(j) == TRUE

\* `if not job_id` fails: the workflow goes on to poll.
HasJobId(j) == j # ""

\* An item function that lets the exception out.
ItemFailsRaising(k, image, exc) == [raised |-> TRUE, exc |-> exc, value |-> <<>>]

\* What the item function makes of an exception raised inside its try block:
\* the batch node returns a failure tuple, the script returns None, the single
\* nodes log and re-raise.
ItemFails(k, image, exc) ==
    CASE k = "batch"  -> [raised |-> FALSE, exc |-> NoExc,
                          value |-> <<ImagePath(image), FALSE, exc.msg>>]
      [] k = "script" -> [raised |-> FALSE, exc |-> NoExc, value |-> <<>>]
      [] OTHER        -> [raised |-> TRUE, exc |-> exc, value |-> <<>>]

\* The outcome of an item when submit returned no job identifier.
NoJobId(k, image) ==
    CASE k = "batch"  -> [raised |-> FALSE, exc |-> NoExc,
                          value |-> <<ImagePath(image), FALSE, <<"Failed to get JobId">>>>]
      [] k = "script" -> ItemFails(k, image, Exc("Exception", <<"Failed to get JobId">>))
      [] OTHER        -> ItemFails(k, image,
                             Exc("Exception", <<"Failed to get JobId from API response">>))

\* The outcome of an item whose model was saved at path.
ItemSucceeds(k, path) ==
    CASE k = "batch"  -> [raised |-> FALSE, exc |-> NoExc,
                          value |-> <<path, TRUE, <<"Success">>>>]
      [] k = "script" -> [raised |-> FALSE, exc |-> NoExc, value |-> path]
      [] OTHER        -> [raised |-> FALSE, exc |-> NoExc,
                          value |-> [ui |-> path, result |-> <<path>>]]

\* A search that takes the type in either case.
RECURSIVE GlbUrlAnyCase(_)
GlbUrlAnyCase(files) ==
    IF files = <<>> THEN ""
    ELSE IF Head(files).type \in {"GLB", "glb"} THEN Head(files).url
    ELSE GlbUrlAnyCase(Tail(files))

\* The url of the first file whose type is "GLB", None ("") without one.
RECURSIVE GlbUrl(_)
GlbUrl(files) ==
    IF files = <<>> THEN ""
    ELSE IF Head(files).type = "GLB" THEN Head(files).url
    ELSE GlbUrl(Tail(files))

\* "\n".join(paths)
RECURSIVE Join(_)
Join(paths) ==
    IF Len(paths) <= 1 THEN paths
    ELSE <<Head(paths), "\n">> \o Join(Tail(paths))

\* Path(path).name
Name(path) == Tail(path)

\* A collection of paths that takes the path of every result.
RECURSIVE ModelPathsOfAll(_)
ModelPathsOfAll(res) ==
    IF res = <<>> THEN <<>> ELSE <<Head(res)[1]>> \o ModelPathsOfAll(Tail(res))

\* model_paths: the paths of the successful results, in order.
RECURSIVE ModelPaths(_)
ModelPaths(res) ==
    IF res = <<>> THEN <<>>
    ELSE (IF Head(res)[2] THEN <<Head(res)[1]>> ELSE <<>>) \o ModelPaths(Tail(res))

\* What batch_generate returns after the loop: the summary and paths_string.
BatchReport(res, succ, fail, files) ==
    [kind       |-> "report",
     successful |-> succ,
     failed     |-> fail,
     total      |-> Len(files),
     lines      |-> [i \in 1..Len(res) |->
                        <<res[i][2], Name(res[i][1]), res[i][3]>>],
     model_paths |-> Join(ModelPaths(res))]

\* What main prints after the loop.
ScriptSummary(succ, fail) ==
    [kind |-> "printed", successful |-> succ, failed |-> fail]

\* Whether the driver counts an item outcome as a success: result[1] of the
\* batch node's tuple, the truth of the script's path.
CountsAsSuccess(k, value) == IF k = "batch" THEN value[2] ELSE value # <<>>

\* A loop that does not move on to the next item.
NextIndexStuck(i) == i

\* enumerate: the index after i
NextIndex(i) == i + 1

\* The frame of wait_for_task_completion is gone once its caller has its
\* result or its exception.
WaitLeave ==
    /\ wait_job_id' = ""
    /\ max_wait_time' = 0
    /\ poll_interval' = DefaultPollInterval
    /\ has_callback' = FALSE
    /\ elapsed_time' = 0
    /\ started_running' = FALSE
    /\ run_start_time' = 0
    /\ wpc' = "idle"
    /\ status' = "unset"
    /\ last_response' = NoResponse
    /\ result' = NoResult
    /\ wait_error' = <<>>
    /\ wait_exc' = "none"
    /\ wall_time' = 0
    /\ calls' = <<>>
    /\ n_queries' = 0
    /\ n_sleeps' = 0
    /\ after_terminal' = 0

\* The loop of batch_generate and of main takes the outcome of an item: it
\* records it, counts it, and goes on to the next item or to the summary.  An
\* exception out of the item function leaves the loop: a RuntimeError in the
\* first branch of batch_generate starts the handler's loop over all items,
\* any other exception leaves the entry point.
LoopTakes(out) ==
    LET ok   == CountsAsSuccess(kind, out.value)
        res  == IF kind = "batch" THEN Append(results, out.value) ELSE results
        succ == IF ok THEN successful + 1 ELSE successful
        fail == IF ok THEN failed ELSE failed + 1
    IN  IF out.raised
        THEN /\ UNCHANGED <<results, successful, failed>>
             /\ IF kind = "batch" /\ out.exc.class = "RuntimeError" /\ branch = "main"
                THEN /\ branch' = "fallback"
                     /\ idx' = 1
                     /\ ipc' = "submit"
                     /\ bpc' = "running"
                     /\ returned' = returned
                ELSE /\ branch' = branch
                     /\ idx' = idx
                     /\ ipc' = "idle"
                     /\ bpc' = "raised"
                     /\ returned' = [kind |-> "raised", exc |-> out.exc]
        ELSE /\ results' = res
             /\ successful' = succ
             /\ failed' = fail
             /\ branch' = branch
             /\ IF idx < Len(image_files)
                THEN /\ idx' = NextIndex(idx)
                     /\ ipc' = "submit"
                     /\ bpc' = "running"
                     /\ returned' = returned
                ELSE /\ idx' = idx
                     /\ ipc' = "idle"
                     /\ bpc' = "done"
                     /\ returned' = IF kind = "batch"
                                    THEN BatchReport(res, succ, fail, image_files)
                                    ELSE ScriptSummary(succ, fail)

\* A generate_3d without its handlers: an exception of _async_generate leaves it.
NodeTakesUncaught(out) ==
    /\ UNCHANGED <<idx, results, successful, failed, branch>>
    /\ ipc' = "idle"
    /\ bpc' = IF out.raised THEN "raised" ELSE "done"
    /\ returned' = IF out.raised
                   THEN [kind |-> "raised", exc |-> out.exc]
                   ELSE [kind |-> "model", result |-> out.value.result]

\* generate_3d takes the outcome of _async_generate: the result, a second run
\* in a new event loop when a RuntimeError came out of the first, or the
\* error-prefixed string.
NodeTakes(out) ==
    /\ UNCHANGED <<idx, results, successful, failed>>
    /\ IF out.raised /\ out.exc.class = "RuntimeError" /\ branch = "main"
       THEN /\ branch' = "fallback"
            /\ ipc' = "submit"
            /\ bpc' = "running"
            /\ returned' = returned
       ELSE /\ branch' = branch
            /\ ipc' = "idle"
            /\ bpc' = "done"
            /\ returned' = IF out.raised
                           THEN [kind |-> "error",
                                 result |-> <<<<"Error: ">> \o out.exc.msg>>]
                           ELSE [kind |-> "model", result |-> out.value.result]

\* The item function ends with outcome out and its caller takes it.
Finish(out) ==
    /\ IF kind \in {"batch", "script"} THEN LoopTakes(out) ELSE NodeTakes(out)
    /\ job_id' = ""
    /\ download_url' = ""
    /\ output_path' = <<>>
    /\ queried' = {}
    /\ UNCHANGED <<kind, loop_state, prompt, image_files, batch_wait_time>>

\* The item in hand: the image of the loop, or the single input of a node.
CurrentItem == IF kind \in {"batch", "script"} THEN image_files[idx] ELSE 0

\* What session.get and response.read do for a download.
DownloadAnswers ==
    { [connects |-> TRUE, http |-> 200, reads |-> TRUE],
      [connects |-> TRUE, http |-> 200, reads |-> FALSE],
      [connects |-> TRUE, http |-> 404, reads |-> TRUE],
      [connects |-> FALSE, http |-> 0, reads |-> FALSE] }

\* A download that takes every status from 200 to 299.
ClientDownloadAnySuccess(ans, path) ==
    IF ~ans.connects
    THEN [raised |-> TRUE, exc |-> Exc("ClientError", <<"cannot connect to host">>)]
    ELSE IF ans.http \in 200..299
    THEN IF ans.reads
         THEN [raised |-> FALSE, exc |-> NoExc]
         ELSE [raised |-> TRUE, exc |-> Exc("ClientError", <<"response payload is not completed">>)]
    ELSE [raised |-> TRUE,
          exc |-> Exc("Exception", <<"Failed to download model: HTTP ", ans.http>>)]

\* A download that writes whatever body it could read.
ClientDownloadAnyStatus(ans, path) ==
    IF ~ans.connects
    THEN [raised |-> TRUE, exc |-> Exc("ClientError", <<"cannot connect to host">>)]
    ELSE IF ans.reads
    THEN [raised |-> FALSE, exc |-> NoExc]
    ELSE [raised |-> TRUE, exc |-> Exc("ClientError", <<"response payload is not completed">>)]

\* download_model: the path returned, or the exception re-raised.
ClientDownload(ans, path) ==
    IF ~ans.connects
    THEN [raised |-> TRUE, exc |-> Exc("ClientError", <<"cannot connect to host">>)]
    ELSE IF ans.http = 200
    THEN IF ans.reads
         THEN [raised |-> FALSE, exc |-> NoExc]
         ELSE [raised |-> TRUE, exc |-> Exc("ClientError", <<"response payload is not completed">>)]
    ELSE [raised |-> TRUE,
          exc |-> Exc("Exception", <<"Failed to download model: HTTP ", ans.http>>)]

\* FileManager has no get_output_path: calling it raises AttributeError.
NoGetOutputPath ==
    Exc("AttributeError", <<"'FileManager' object has no attribute 'get_output_path'">>)

\* The path the model is to be saved at, or the exception raised on the way:
\* the batch node falls back on file_manager.get_output_path when the output
\* folder cannot be made, the script's mkdir raises, and the single nodes call
\* file_manager.get_output_path at once.
MakeOutputPath(k, image, folder_ok) ==
    CASE k = "batch"  -> IF folder_ok
                         THEN [raised |-> FALSE, exc |-> NoExc, path |-> OutputPath(image)]
                         ELSE [raised |-> TRUE, exc |-> NoGetOutputPath, path |-> <<>>]
      [] k = "script" -> IF folder_ok
                         THEN [raised |-> FALSE, exc |-> NoExc, path |-> OutputPath(image)]
                         ELSE [raised |-> TRUE, path |-> <<>>,
                               exc |-> Exc("OSError", <<"cannot create the output folder">>)]
      [] OTHER        -> [raised |-> TRUE, exc |-> NoGetOutputPath, path |-> <<>>]

\* The exception for a DONE result the workflow finds no model url in; NoExc
\* when it finds one.
SelectionError(k, files) ==
    IF k \in {"text", "image"} /\ files = <<>>
    THEN Exc("Exception", <<"No result files in task result">>)
    ELSE IF GlbUrl(files) # "" THEN NoExc
    ELSE IF k \in {"text", "image"}
    THEN Exc("Exception", <<"No GLB file found in results">>)
    ELSE Exc("Exception", <<"No GLB file in results">>)

\* The item outcome for a missing model url: the batch node returns its
\* failure tuple, the others raise.
NoGlb(k, image, exc) ==
    IF k = "batch"
    THEN [raised |-> FALSE, exc |-> NoExc, value |-> <<ImagePath(image), FALSE, exc.msg>>]
    ELSE ItemFails(k, image, exc)

\* The item function up to the end of its submit call: the image is
\* converted, the job is submitted, and with a job identifier in hand the
\* wait begins.
ItemSubmit ==
    /\ bpc = "running"
    /\ UNCHANGED <<clientVars, configVars>>
    /\ ipc = "submit"
    /\ started' = Append(started, CurrentItem)
    /\ fetched' = fetched
    /\ saved' = saved
    /\ \E converts \in (IF kind \in {"batch", "script"} THEN BOOLEAN ELSE {TRUE}) :
         IF ~converts
         THEN /\ Finish(ItemFails(kind, CurrentItem,
                                  Exc("UnidentifiedImageError",
                                      <<"cannot identify image file">>)))
              /\ UNCHANGED <<submit_log, waitVars, remoteVars>>
         ELSE \E ans \in SubmitAnswers(Len(submit_log) + 1) :
                LET sub == ClientSubmit(ans)
                IN  /\ submit_log' = Append(submit_log,
                                         [item |-> CurrentItem, pos |-> idx,
                                          recorded |-> successful + failed,
                                          job |-> sub.value,
                                          raised |-> sub.raised])
                    /\ IF sub.raised
                       THEN /\ Finish(ItemFails(kind, CurrentItem, sub.exc))
                            /\ UNCHANGED <<waitVars, remoteVars>>
                       ELSE IF ~HasJobId(sub.value)
                       THEN /\ Finish(NoJobId(kind, CurrentItem))
                            /\ UNCHANGED <<waitVars, remoteVars>>
                       ELSE /\ job_id' = sub.value
                            /\ ipc' = "wait"
                            /\ WaitEnter(sub.value, batch_wait_time,
                                         DefaultPollInterval, TRUE)
                            /\ remote_status' = "WAIT"
                            /\ done_at' = <<>>
                            /\ UNCHANGED <<kind, driverVars, download_url,
                                           output_path, queried>>

\* The wait is over: its exception ends the item; its result is searched for
\* the model url, the output path is made and the download begins.
ItemWaitDone ==
    /\ bpc = "running"
    /\ UNCHANGED <<clientVars, configVars>>
    /\ ipc = "wait"
    /\ wpc \in {"returned", "raised"}
    /\ WaitLeave
    /\ UNCHANGED <<remoteVars, histVars>>
    /\ IF wpc = "raised"
       THEN Finish(ItemFails(kind, CurrentItem, Exc(wait_exc, wait_error)))
       ELSE LET sel == SelectionError(kind, result.result_urls)
            IN  IF sel # NoExc
                THEN Finish(NoGlb(kind, CurrentItem, sel))
                ELSE \E folder_ok \in BOOLEAN :
                       LET made == MakeOutputPath(kind, CurrentItem, folder_ok)
                       IN  IF made.raised
                           THEN Finish(ItemFails(kind, CurrentItem, made.exc))
                           ELSE /\ ipc' = "download"
                                /\ download_url' = GlbUrl(result.result_urls)
                                /\ output_path' = made.path
                                /\ UNCHANGED <<kind, driverVars, job_id, queried>>

\* download_model answers and the item function returns.
ItemDownload ==
    /\ bpc = "running"
    /\ UNCHANGED <<clientVars, configVars>>
    /\ ipc = "download"
    /\ \E ans \in DownloadAnswers :
         LET got == ClientDownload(ans, output_path)
         IN  /\ fetched' = IF got.raised THEN fetched ELSE fetched \cup {CurrentItem}
             /\ saved' = IF got.raised THEN saved ELSE saved \cup {ans}
             /\ IF got.raised
                THEN Finish(ItemFails(kind, CurrentItem, got.exc))
                ELSE Finish(ItemSucceeds(kind, output_path))
    /\ UNCHANGED <<waitVars, remoteVars, submit_log, started>>

\* ------------------------------------------- the submit calls on their own
GenerateTypes == {"Normal", "LowPoly", "Geometry", "Sketch"}

PolygonTypes == {"triangle", "quadrilateral"}

\* The face counts explored: the bounds, their neighbours, the default and 0.
FaceCounts ==
    {0, MinFaceCount - 1, MinFaceCount, DefaultFaceCount, MaxFaceCount, MaxFaceCount + 1}

SubmitArgs ==
    [input : {"x"}, enable_pbr : BOOLEAN, face_count : FaceCounts,
     generate_type : GenerateTypes, polygon_type : PolygonTypes]

\* The payload before the polygon type is looked at: the input goes in the
\* field Prompt (text_to_3d) or ImageBase64 (image_to_3d).
BaseParams(op, a) ==
    IF op = "text"
    THEN [Prompt |-> a.input, EnablePBR |-> a.enable_pbr,
          FaceCount |-> a.face_count, GenerateType |-> a.generate_type]
    ELSE [ImageBase64 |-> a.input, EnablePBR |-> a.enable_pbr,
          FaceCount |-> a.face_count, GenerateType |-> a.generate_type]

\* A payload that always names the polygon type.
SubmitParamsWithPolygon(op, a) ==
    BaseParams(op, a) @@ [PolygonType |-> a.polygon_type]

\* params of text_to_3d and image_to_3d: PolygonType is added for LowPoly only.
SubmitParams(op, a) ==
    IF a.generate_type = "LowPoly"
    THEN BaseParams(op, a) @@ [PolygonType |-> a.polygon_type]
    ELSE BaseParams(op, a)

\* text_to_3d or image_to_3d is called and runs up to its await: the payload
\* is built and handed to call_json.
SubmitCall ==
    /\ kind = "submit"
    /\ spc = "idle"
    /\ \E op \in {"text", "image"}, a \in SubmitArgs :
         /\ sop' = op
         /\ sargs' = a
         /\ sent' = Append(sent, SubmitParams(op, a))
    /\ spc' = "sent"
    /\ UNCHANGED <<sanswer, sout, downloadVars, waitVars, remoteVars, queried, callerVars, cleanupVars>>

\* call_json answers or raises, and the submit call returns the job
\* identifier or raises.
SubmitAnswer ==
    /\ kind = "submit"
    /\ spc = "sent"
    /\ \E ans \in SubmitAnswers(Len(sent)) :
         /\ sanswer' = ans
         /\ sout' = ClientSubmit(ans)
         /\ spc' = IF ClientSubmit(ans).raised THEN "raised" ELSE "returned"
    /\ UNCHANGED <<sop, sargs, sent, downloadVars, waitVars, remoteVars, queried, callerVars, cleanupVars>>

InitSubmit ==
    /\ kind = "submit"
    /\ prompt = <<>>
    /\ image_files = <<>>
    /\ batch_wait_time = 0
    /\ ClientIdle
    /\ CleanupIdle
    /\ WaitIdle
    /\ CallerIdle
    /\ ConfigBuilt

NextSubmit == SubmitCall \/ SubmitAnswer

SpecSubmit == InitSubmit /\ [][NextSubmit]_vars

\* ------------------------------------------ download_model on its own
\* The status codes a download answers with.
HttpStatuses == {200, 201, 204, 206, 302, 404, 500, 503}

\* The bodies a download delivers.
Bodies == {"glb-1", "glb-2", ""}

DownloadUrls == {"http://x/model.glb", "http://x/lod1.glb"}

\* What the destination may hold before the call: nothing, or an older model.
Contents == {"absent", "old model"}

\* open(output_path, 'wb'): the file is there and empty, whatever it held.
Opened(content) == "opened empty"

\* download_model is called and awaits session.get.
DownloadCall ==
    /\ kind = "download"
    /\ dpc = "idle"
    /\ \E url \in DownloadUrls, image \in 1..2, content \in Contents :
         /\ dargs' = [url |-> url, output_path |-> OutputPath(image)]
         /\ dest' = content
         /\ dbefore' = content
    /\ dpc' = "get"
    /\ UNCHANGED <<danswer, dout, submitVars, waitVars, remoteVars, queried, callerVars, cleanupVars>>

\* session.get answers or raises: without a response, or with a status the
\* call does not take, the call raises; otherwise the file is opened for
\* writing and the body is awaited.
DownloadResponds ==
    /\ kind = "download"
    /\ dpc = "get"
    /\ \E connects \in BOOLEAN, http \in HttpStatuses :
         LET ans == [connects |-> connects, http |-> IF connects THEN http ELSE 0,
                     reads |-> TRUE]
             got == ClientDownload(ans, dargs.output_path)
         IN  /\ danswer' = ans
             /\ IF got.raised
                THEN /\ dpc' = "raised"
                     /\ dout' = [raised |-> TRUE, value |-> "", exc |-> got.exc]
                     /\ dest' = dest
                ELSE /\ dpc' = "read"
                     /\ dout' = dout
                     /\ dest' = Opened(dest)
    /\ UNCHANGED <<dargs, dbefore, submitVars, waitVars, remoteVars, queried, callerVars, cleanupVars>>

\* response.read answers with the body, which is written and the path
\* returned, or raises with the file open.
DownloadReads ==
    /\ kind = "download"
    /\ dpc = "read"
    /\ \E reads \in BOOLEAN, body \in Bodies :
         LET ans == [danswer EXCEPT !.reads = reads]
             got == ClientDownload(ans, dargs.output_path)
         IN  /\ danswer' = ans
             /\ IF got.raised
                THEN /\ dpc' = "raised"
                     /\ dout' = [raised |-> TRUE, value |-> "", exc |-> got.exc]
                     /\ dest' = dest
                ELSE /\ dpc' = "returned"
                     /\ dout' = [raised |-> FALSE, value |-> dargs.output_path,
                                 exc |-> NoExc]
                     /\ dest' = body
    /\ UNCHANGED <<dargs, dbefore, submitVars, waitVars, remoteVars, queried, callerVars, cleanupVars>>

InitDownload ==
    /\ kind = "download"
    /\ prompt = <<>>
    /\ image_files = <<>>
    /\ batch_wait_time = 0
    /\ ClientIdle
    /\ CleanupIdle
    /\ WaitIdle
    /\ CallerIdle
    /\ ConfigBuilt

NextDownload == DownloadCall \/ DownloadResponds \/ DownloadReads

SpecDownload == InitDownload /\ [][NextDownload]_vars

\* ---------------------------------------------------- the entry points
LoopStates == {"running", "idle", "none"}

\* asyncio.get_event_loop() raises RuntimeError without a usable loop, and the
\* handler runs the work in a new loop; otherwise the first branch runs it.
BranchOf(ls) == IF ls = "none" THEN "fallback" ELSE "main"

\* The default prompt of the text node
DefaultPrompt ==
    <<"A", " ", "c", "u", "t", "e", " ", "r", "o", "b", "o", "t", " ", "t", "o", "y">>

Prompts == { <<>>, <<" ">>, <<"a">>, <<" ", "a", " ">>, DefaultPrompt }

\* The max_wait_time values the entry points pass to the wait.
BatchWaitTimes == { n * DefaultPollInterval : n \in 1..MaxBatchTicks }

NodeWaitTimes == { n * DefaultPollInterval : n \in 1..MaxNodeTicks }

\* The start of work in an entry point: the first item, in the branch the
\* event loop on entry leads to.
Begin(ls) ==
    /\ loop_state' = ls
    /\ branch' = BranchOf(ls)
    /\ idx' = 1
    /\ ipc' = "submit"
    /\ bpc' = "running"
    /\ returned' = returned

\* An entry point that returns value before any item is processed.
ReturnEarly(value) ==
    /\ bpc' = "done"
    /\ returned' = value
    /\ UNCHANGED <<loop_state, branch, idx, ipc>>

\* batch_generate up to its first item: without images it returns the error
\* message at once.
BatchStart ==
    /\ kind = "batch"
    /\ UNCHANGED clientVars
    /\ bpc = "init"
    /\ cpc = "built"
    /\ IF image_files = <<>>
       THEN ReturnEarly([kind |-> "error", result |-> <<<<"No images found">>>>])
            /\ client' = client
       ELSE (\E ls \in LoopStates : Begin(ls)) /\ client' = NodeClient
    /\ UNCHANGED <<cpc, cargs, config, cout>>
    /\ UNCHANGED <<kind, prompt, image_files, batch_wait_time, results, successful,
                   failed, job_id, download_url, output_path, histVars, queried,
                   waitVars, remoteVars>>

\* main up to its first item: it returns at once with the placeholder
\* credentials or without images; asyncio.run gives it a loop of its own.
ScriptStart ==
    /\ kind = "script"
    /\ UNCHANGED clientVars
    /\ bpc = "init"
    /\ \E configured \in BOOLEAN :
         IF ~configured THEN ReturnEarly([kind |-> "not configured"]) /\ client' = client
         ELSE IF image_files = <<>>
         THEN ReturnEarly([kind |-> "no images"]) /\ client' = client
         ELSE Begin("idle") /\ client' = ScriptClient
    /\ UNCHANGED <<cpc, cargs, config, cout>>
    /\ UNCHANGED <<kind, prompt, image_files, batch_wait_time, results, successful,
                   failed, job_id, download_url, output_path, histVars, queried,
                   waitVars, remoteVars>>

\* generate_3d up to the start of _async_generate: the text node rejects a
\* blank prompt, the image node converts its tensor; either failure is
\* returned as the error-prefixed string.
NodeStart ==
    /\ kind \in {"text", "image"}
    /\ UNCHANGED clientVars
    /\ bpc = "init"
    /\ cpc = "built"
    /\ IF kind = "text"
       THEN IF Strip(prompt) = <<>>
            THEN ReturnEarly([kind |-> "error",
                              result |-> <<<<"Error: ", "Prompt cannot be empty">>>>])
                 /\ client' = client
            ELSE (\E ls \in LoopStates : Begin(ls)) /\ client' = NodeClient
       ELSE \E converts \in BOOLEAN :
               IF ~converts
               THEN ReturnEarly([kind |-> "error",
                                 result |-> <<<<"Error: ", "cannot convert the image tensor">>>>])
                    /\ client' = client
               ELSE (\E ls \in LoopStates : Begin(ls)) /\ client' = NodeClient
    /\ UNCHANGED <<cpc, cargs, config, cout>>
    /\ UNCHANGED <<kind, prompt, image_files, batch_wait_time, results, successful,
                   failed, job_id, download_url, output_path, histVars, queried,
                   waitVars, remoteVars>>

\* The inputs of an entry point of kind k.
InitFlow ==
    /\ kind \in {"batch", "script", "text", "image"}
    /\ ClientIdle
    /\ CleanupIdle
    /\ prompt \in (IF kind = "text" THEN Prompts ELSE {<<>>})
    /\ image_files \in
         (CASE kind = "batch"  -> { GetImageFiles(S, n) :
                                      S \in SUBSET (1..MaxImages), n \in 1..MaxImages }
            [] kind = "script" -> { Sorted(S) : S \in SUBSET (1..MaxImages) }
            [] OTHER           -> { <<>> })
    /\ batch_wait_time \in (IF kind \in {"text", "image"} THEN NodeWaitTimes
                                                            ELSE BatchWaitTimes)
    /\ WaitIdle
    /\ CallerIdle
    /\ ConfigBuilt

NextFlow ==
    \/ BatchStart
    \/ ScriptStart
    \/ NodeStart
    \/ ItemSubmit
    \/ WaitPoll
    \/ WaitQueryRaises
    \/ WaitSleep
    \/ RemoteChange
    \/ ItemWaitDone
    \/ ItemDownload

SpecFlow == InitFlow /\ [][NextFlow]_vars

\* ------------------------------------------- cleanup_old_files on its own
MaxEntries == 3

\* max_age_seconds = max_age_hours * 3600
SecondsPerHour == 3600

\* The time of the call and the modification times of the entries, in
\* seconds: now, one hour ago to the second, a second more, two hours ago.
CurrentTimes == { 2 * SecondsPerHour }

Mtimes == { 0, SecondsPerHour - 1, SecondsPerHour, 2 * SecondsPerHour }

MaxAgeHours == { 0, 1, 2, 1000000 }

MaxFilesValues == { 0, 1, 2, 1000000 }

\* What an entry of the directory can be: a regular file, which os.remove
\* deletes or (locked) fails to delete, a regular file whose name begins
\* with a dot, or a subdirectory.
EntryShapes ==
    { [type |-> "file", hidden |-> FALSE, mtime |-> t, locked |-> l] :
         t \in Mtimes, l \in BOOLEAN }
    \cup { [type |-> "file", hidden |-> TRUE, mtime |-> 0, locked |-> FALSE],
           [type |-> "dir", hidden |-> FALSE, mtime |-> 0, locked |-> FALSE] }

\* The entry named k
Entry(k, shape) ==
    [name |-> k, type |-> shape.type, hidden |-> shape.hidden,
     mtime |-> shape.mtime, locked |-> shape.locked]

\* The directories cleaned: a missing one, and those of up to MaxEntries
\* entries, in the order the operating system lists them.
Directories ==
    { NoDirectory }
    \cup UNION { { [exists |-> TRUE, entries |-> [k \in 1..n |-> Entry(k, q[k])]] :
                     q \in [1..n -> EntryShapes] } : n \in 0..MaxEntries }

\* glob.glob(os.path.join(directory, "*")): the entries whose name does not
\* begin with a dot
GlobStar(entries) == SelectSeq(entries, LAMBDA e : ~e.hidden)

\* os.path.isfile
IsFile(e) == e.type = "file"

\* The (filepath, mtime) list of the regular files the pattern matched.
ListedFiles(entries) == SelectSeq(GlobStar(entries), IsFile)

\* The first position of files holding the greatest mtime.
FirstNewest(files) ==
    CHOOSE k \in 1..Len(files) :
        /\ \A l \in 1..Len(files) : files[l].mtime <= files[k].mtime
        /\ \A l \in 1..(k - 1) : files[l].mtime < files[k].mtime

Without(files, k) == SubSeq(files, 1, k - 1) \o SubSeq(files, k + 1, Len(files))

\* files.sort(key=lambda x: x[1], reverse=True): newest first, files of equal
\* mtime in the order of the listing
RECURSIVE SortNewestFirst(_)
SortNewestFirst(files) ==
    IF files = <<>> THEN <<>>
    ELSE <<files[FirstNewest(files)]>>
         \o SortNewestFirst(Without(files, FirstNewest(files)))

\* An age test that takes a file of exactly the greatest age as too old.
TooOldInclusive(mtime, current_time, max_age_hours) ==
    (current_time - mtime) \div SecondsPerHour >= max_age_hours

\* current_time - mtime > max_age_seconds, with max_age_seconds =
\* max_age_hours * 3600.  Python's integers do not overflow; the product is
\* avoided by the equal test floor((age - 1) / 3600) >= max_age_hours.
TooOld(mtime, current_time, max_age_hours) ==
    (current_time - mtime - 1) \div SecondsPerHour >= max_age_hours

\* A test that looks at the age only.
ShouldDeleteByAge(i, mtime, a) ==
    TooOld(mtime, a.current_time, a.max_age_hours)

\* should_delete of the file at position i (from 0) of the sorted list
ShouldDelete(i, mtime, a) ==
    TooOld(mtime, a.current_time, a.max_age_hours) \/ i >= a.max_files

\* A delete_file for which os.remove never fails.
DeleteFileForced(e) ==
    [deleted |-> TRUE,
     log |-> <<[level |-> "info", msg |-> <<"Deleted file: ", e.name>>]>>]

\* delete_file: True once os.remove deleted the file; an exception of
\* os.remove is logged and the result is False.
DeleteFile(e) ==
    IF e.locked
    THEN [deleted |-> FALSE,
          log |-> <<[level |-> "error", msg |-> <<"Error deleting file ", e.name>>]>>]
    ELSE [deleted |-> TRUE,
          log |-> <<[level |-> "info", msg |-> <<"Deleted file: ", e.name>>]>>]

\* The loop over the sorted files from position i (from 0) on: acc carries
\* the names deleted, deleted_count, the log and the names handed to
\* delete_file.
RECURSIVE CleanupLoop(_, _, _, _)
CleanupLoop(files, i, a, acc) ==
    IF i >= Len(files) THEN acc
    ELSE LET e == files[i + 1]
         IN  IF ShouldDelete(i, e.mtime, a)
             THEN LET d == DeleteFile(e)
                  IN  CleanupLoop(files, i + 1, a,
                         [removed |-> IF d.deleted THEN acc.removed \cup {e.name}
                                                   ELSE acc.removed,
                          deleted_count |-> IF d.deleted THEN acc.deleted_count + 1
                                                         ELSE acc.deleted_count,
                          log |-> acc.log \o d.log,
                          attempts |-> Append(acc.attempts, e.name)])
             ELSE CleanupLoop(files, i + 1, a, acc)

\* cleanup_old_files(directory, max_age_hours, max_files) called at
\* a.current_time: the directory it leaves, the count it returns, its log.
CleanupOldFiles(dir, a) ==
    IF ~dir.exists
    THEN [directory |-> dir, deleted_count |-> 0, log |-> <<>>, attempts |-> <<>>]
    ELSE LET files == SortNewestFirst(ListedFiles(dir.entries))
             acc   == CleanupLoop(files, 0, a,
                         [removed |-> {}, deleted_count |-> 0, log |-> <<>>,
                          attempts |-> <<>>])
         IN  [directory |->
                 [exists |-> TRUE,
                  entries |-> SelectSeq(dir.entries,
                                        LAMBDA e : e.name \notin acc.removed)],
              deleted_count |-> acc.deleted_count,
              log |-> acc.log
                      \o (IF acc.deleted_count > 0
                          THEN <<[level |-> "info",
                                  msg |-> <<"Cleaned up ", acc.deleted_count,
                                            " old files">>]>>
                          ELSE <<>>),
              attempts |-> acc.attempts]

\* The effect of one call with the arguments a on the directory.
Cleans(a) ==
    LET out == CleanupOldFiles(directory, a)
    IN  /\ fbefore' = directory
        /\ directory' = out.directory
        /\ fargs' = a
        /\ fout' = out.deleted_count
        /\ flog' = out.log
        /\ fattempts' = out.attempts

\* One call of cleanup_old_files.
CleanupCall ==
    /\ kind = "cleanup"
    /\ fpc = "idle"
    /\ \E h \in MaxAgeHours, n \in MaxFilesValues, t \in CurrentTimes :
         Cleans([max_age_hours |-> h, max_files |-> n, current_time |-> t])
    /\ fpc' = "cleaned"
    /\ UNCHANGED <<submitVars, downloadVars, waitVars, remoteVars, queried, callerVars>>

\* The same call made again at once.
CleanupAgain ==
    /\ kind = "cleanup"
    /\ fpc = "cleaned"
    /\ Cleans(fargs)
    /\ fpc' = "again"
    /\ UNCHANGED <<submitVars, downloadVars, waitVars, remoteVars, queried, callerVars>>

InitCleanup ==
    /\ kind = "cleanup"
    /\ prompt = <<>>
    /\ image_files = <<>>
    /\ batch_wait_time = 0
    /\ ClientIdle
    /\ WaitIdle
    /\ CallerIdle
    /\ ConfigBuilt
    /\ fpc = "idle"
    /\ directory \in Directories
    /\ fbefore = NoDirectory
    /\ fargs = [max_age_hours |-> 0, max_files |-> 0, current_time |-> 0]
    /\ fout = 0
    /\ flog = <<>>
    /\ fattempts = <<>>

NextCleanup == CleanupCall \/ CleanupAgain

SpecCleanup == InitCleanup /\ [][NextCleanup]_vars

\* A workflow from its configuration node on: the strings entered, then a
\* node or the batch node given the configuration, with the shortest wait.
InitConfig ==
    /\ kind \in {"text", "image", "batch"}
    /\ ClientIdle
    /\ CleanupIdle
    /\ prompt \in (IF kind = "text" THEN Prompts ELSE {<<>>})
    /\ image_files \in (IF kind = "batch" THEN {<<>>, <<1>>} ELSE {<<>>})
    /\ batch_wait_time = DefaultPollInterval
    /\ WaitIdle
    /\ CallerIdle
    /\ cpc = "call"
    /\ cargs = [secret_id |-> <<>>, secret_key |-> <<>>, region |-> "none"]
    /\ config = NoConfig
    /\ cout = NoExc
    /\ client = NoClient

NextConfig ==
    \/ ConfigCreate
    \/ BatchStart
    \/ NodeStart
    \/ ItemSubmit
    \/ WaitPoll
    \/ WaitQueryRaises
    \/ WaitSleep
    \/ RemoteChange
    \/ ItemWaitDone
    \/ ItemDownload

SpecConfig == InitConfig /\ [][NextConfig]_vars

Init == InitWait \/ InitFlow \/ InitSubmit \/ InitDownload \/ InitConfig \/ InitCleanup

Next == NextWait \/ NextFlow \/ NextSubmit \/ NextDownload \/ ConfigCreate \/ NextCleanup

Spec == Init /\ [][Next]_vars

\* ------------------------------------------------- properties of the wait
WaitEnded == wpc \in {"returned", "raised"}

TimedOut == wpc = "raised" /\ wait_error = TimeoutMessage(max_wait_time)

\* C2: once a status query has returned DONE or FAIL, the wait issues no
\* further query and does not sleep again; it returns (DONE) or raises (FAIL)
\* on that same tick.
C2_TerminalEndsWait ==
    /\ after_terminal = 0
    /\ status = "DONE" => wpc = "returned"
    /\ status = "FAIL" => wpc = "raised" /\ wait_error = TaskFailedMessage(result)
    /\ status \in Terminal => n_sleeps = n_queries - 1

C2_Witness ==
    /\ status = "DONE"
    /\ wpc = "returned"
    /\ n_queries >= 2

\* C3: the wait ends within max_wait_time + poll_interval seconds of its
\* start, whether it returns, raises or times out, also when the status
\* queries take time to answer.
C3_EndsWithinBound ==
    WaitEnded => wall_time <= max_wait_time + poll_interval

\* C4: the wait times out only if the job was not marked DONE before
\* max_wait_time seconds had elapsed since the call began.
C4_DoneInTimeIsNotTimeout ==
    TimedOut => ~(done_at # <<>> /\ done_at[1] < max_wait_time)

\* C5: when a status query returns FAIL the wait returns nothing and raises
\* an error whose message contains the error code and the error message of
\* that response.
C5_FailCarriesCodeAndMessage ==
    status = "FAIL" =>
        /\ wpc = "raised"
        /\ "ErrorCode" \in DOMAIN last_response =>
               Contains(wait_error, last_response["ErrorCode"])
        /\ "ErrorMessage" \in DOMAIN last_response =>
               Contains(wait_error, last_response["ErrorMessage"])

C5_Witness ==
    /\ status = "FAIL"
    /\ wpc = "raised"
    /\ "ErrorCode" \in DOMAIN last_response
    /\ last_response["ErrorCode"] = "InternalError"
    /\ n_queries >= 2

\* C6: when the query returns FAIL with error code ResourceInsufficient, the
\* error the wait raises contains the code and the hint text the lookup table
\* of _format_error holds for it.
C6_FailCarriesHint ==
    (status = "FAIL" /\ result.error_code = "ResourceInsufficient") =>
        /\ wpc = "raised"
        /\ Contains(wait_error, "ResourceInsufficient")
        /\ Contains(wait_error, ErrorHints("ResourceInsufficient"))

\* The percents reported on ticks of status st never decrease.
NonDecreasingWithin(st) ==
    \A i, j \in 1..Len(calls) :
        (i < j /\ calls[i].status = st /\ calls[j].status = st)
            => calls[i].percent <= calls[j].percent

WaitAndRunRanges ==
    \A i \in 1..Len(calls) :
        /\ calls[i].status = "WAIT" =>
               /\ 0 <= calls[i].percent
               /\ calls[i].percent <= Pct(10, max_wait_time)
        /\ calls[i].status = "RUN" =>
               /\ Pct(10, max_wait_time) <= calls[i].percent
               /\ calls[i].percent <= Pct(95, max_wait_time)

\* C7, as stated: every percent reported on a WAIT tick lies in [0,10], on a
\* RUN tick in [10,95], the value reported on the DONE tick is exactly 100,
\* and the values do not decrease within the WAIT ticks nor within the RUN
\* ticks.
C7_Original ==
    /\ WaitAndRunRanges
    /\ \A i \in 1..Len(calls) :
          calls[i].status = "DONE" => calls[i].percent = Pct(100, max_wait_time)
    /\ NonDecreasingWithin("WAIT")
    /\ NonDecreasingWithin("RUN")

\* C7, amended: as C7, but the DONE tick invokes the callback twice, first
\* with 95 and last with exactly 100.
C7_ProgressRanges ==
    /\ WaitAndRunRanges
    /\ \A i \in 1..Len(calls) :
          calls[i].status = "DONE" =>
              /\ i \in {Len(calls) - 1, Len(calls)}
              /\ i = Len(calls) - 1 => calls[i].percent = Pct(95, max_wait_time)
              /\ i = Len(calls) => calls[i].percent = Pct(100, max_wait_time)
    /\ (status = "DONE" /\ has_callback) =>
          /\ Len(calls) >= 2
          /\ calls[Len(calls)].status = "DONE"
          /\ calls[Len(calls) - 1].status = "DONE"
    /\ NonDecreasingWithin("WAIT")
    /\ NonDecreasingWithin("RUN")

\* A wait whose running estimate reached its cap and that ended DONE after
\* WAIT and RUN ticks.
C7_Witness ==
    /\ status = "DONE"
    /\ Len(calls) >= 4
    /\ \E i, j \in 1..Len(calls) :
          /\ i < j
          /\ calls[i].status = "RUN"
          /\ calls[j].status = "RUN"
          /\ calls[i].percent < calls[j].percent
          /\ calls[j].percent = Pct(95, max_wait_time)

Monotone ==
    \A i, j \in 1..Len(calls) : i < j => calls[i].percent <= calls[j].percent

NoWaitAfterRun ==
    \A i, j \in 1..Len(calls) :
        i < j => ~(calls[i].status = "RUN" /\ calls[j].status = "WAIT")

\* C8, as stated: over all callback invocations of one wait the percent
\* never decreases, for every sequence of poll responses in which WAIT is
\* never observed after RUN.
C8_Original == NoWaitAfterRun => Monotone

\* C8, amended: the same, for the sequences in which moreover every response
\* carries one of the statuses WAIT, RUN, DONE, FAIL.
C8_MonotoneProgress ==
    (/\ NoWaitAfterRun
     /\ \A i \in 1..Len(calls) : calls[i].status \in {"WAIT", "RUN", "DONE", "FAIL"})
        => Monotone

C8_Witness ==
    /\ status = "DONE"
    /\ NoWaitAfterRun
    /\ Len(calls) = 5
    /\ calls[1].status = "WAIT"
    /\ calls[2].status = "RUN"
    /\ calls[3].status = "RUN"
    /\ calls[2].percent < calls[3].percent

\* ------------------------------------------- properties of the workflows
\* The items of the run whose model file was not downloaded.
FailedItems == {i \in Range(image_files) : i \notin fetched}

\* C1: in a batch run over N images in which exactly one item fails, every
\* later item is still processed, no exception leaves the item function, and
\* the report shows N-1 successes, 1 failure and N in total.
C1_BatchIsolatesFailure ==
    kind \in {"batch", "script"} =>
        /\ bpc # "raised"
        /\ (bpc = "done" /\ image_files # <<>> /\ returned.kind \in {"report", "printed"}
              /\ Cardinality(FailedItems) = 1) =>
               /\ started = image_files
               /\ returned.successful = Len(image_files) - 1
               /\ returned.failed = 1
               /\ kind = "batch" =>
                      /\ returned.total = Len(image_files)
                      /\ Len(returned.lines) = Len(image_files)

\* A batch of two images whose first submission raised and whose second
\* image was downloaded.
C1_Witness ==
    /\ kind = "batch"
    /\ bpc = "done"
    /\ Len(image_files) = 2
    /\ FailedItems = {image_files[1]}
    /\ Len(submit_log) = 2
    /\ submit_log[1].job = ""
    /\ returned.lines[1][3] = FormatError("ResourceInsufficient", "no quota")
    /\ returned.lines[2][1]

\* C9: in every workflow no status query is issued unless a submit call
\* before it returned a non-empty job identifier, and every status query
\* carries exactly that identifier.
C9_QueriesCarrySubmittedId ==
    /\ queried # {} =>
          /\ submit_log # <<>>
          /\ submit_log[Len(submit_log)].job # ""
          /\ queried = {submit_log[Len(submit_log)].job}
    /\ (kind # "wait" /\ wpc # "idle") =>
          /\ submit_log # <<>>
          /\ submit_log[Len(submit_log)].job # ""
          /\ wait_job_id = submit_log[Len(submit_log)].job

\* The second run of a text node, in the fallback loop, polling its own job.
C9_Witness ==
    /\ kind = "text"
    /\ branch = "fallback"
    /\ Len(submit_log) = 2
    /\ submit_log[1].job = "job-1"
    /\ queried = {"job-2"}
    /\ n_queries = 2

\* C10: the batch driver processes one item at a time and in input order:
\* an item is submitted only when every item before it has its recorded
\* outcome, so at most one job is between submit and outcome.
C10_OneItemAtATime ==
    kind \in {"batch", "script"} =>
        /\ \A k \in 1..Len(submit_log) :
              /\ submit_log[k].pos \in 1..Len(image_files)
              /\ submit_log[k].item = image_files[submit_log[k].pos]
              /\ submit_log[k].recorded = submit_log[k].pos - 1
        /\ \A k, l \in 1..Len(submit_log) :
              k < l => submit_log[k].pos < submit_log[l].pos
        /\ Cardinality({k \in 1..Len(submit_log) :
                          submit_log[k].pos > successful + failed}) <= 1
        /\ \A k \in 1..Len(started) : started[k] = image_files[k]

\* The second item of a batch is being polled after the first was recorded.
C10_Witness ==
    /\ kind = "batch"
    /\ Len(image_files) = 2
    /\ Len(submit_log) = 2
    /\ successful = 1
    /\ failed = 0
    /\ ipc = "wait"
    /\ n_queries = 1

\* The paths a reader of paths_string gets back: paths_string.split("\n"),
\* nothing for the empty string.
RECURSIVE SplitLines(_)
SplitLines(joined) ==
    IF joined = <<>> THEN <<>>
    ELSE IF Len(joined) = 1 THEN joined
    ELSE <<Head(joined)>> \o SplitLines(Tail(Tail(joined)))

\* C11: at the end of a batch run over a non-empty input list the report's
\* successes plus failures equal its total, which is the number of input
\* images; the report has one result line per image and model_paths holds
\* one path per successful item, the path its model was saved at.
C11_ReportTotals ==
    (kind = "batch" /\ bpc = "done" /\ image_files # <<>>) =>
        /\ returned.kind = "report"
        /\ returned.successful + returned.failed = returned.total
        /\ returned.total = Len(image_files)
        /\ Len(returned.lines) = Len(image_files)
        /\ Len(SplitLines(returned.model_paths)) = returned.successful
        /\ returned.successful = Cardinality(fetched)
        /\ \A j \in 1..Len(SplitLines(returned.model_paths)) :
              \E i \in fetched : SplitLines(returned.model_paths)[j] = OutputPath(i)
        /\ \A i \in fetched :
              \E j \in 1..Len(SplitLines(returned.model_paths)) :
                 SplitLines(returned.model_paths)[j] = OutputPath(i)

\* Both items of a batch failed in the loop of the RuntimeError handler.
C11_Witness ==
    /\ kind = "batch"
    /\ bpc = "done"
    /\ branch = "fallback"
    /\ Len(image_files) = 2
    /\ returned.kind = "report"
    /\ returned.failed = 2
    /\ returned.successful = 0
    /\ returned.model_paths = <<>>

\* The wait of the text node has returned in the scenario of the default
\* prompt: the polls saw WAIT, RUN, RUN, DONE and the result holds one file of
\* type "GLB" with its url.
TextScenario ==
    /\ kind = "text"
    /\ prompt = DefaultPrompt
    /\ ipc = "wait"
    /\ wpc = "returned"
    /\ [k \in 1..Len(calls) |-> calls[k].status] = <<"WAIT", "RUN", "RUN", "DONE", "DONE">>
    /\ result.result_urls = <<[url |-> "http://x/model.glb", type |-> "GLB"]>>

\* C12: in the text-to-3D scenario (default prompt; WAIT, RUN, RUN, DONE; one
\* GLB file whose url downloads) the text node goes on to download the file to
\* the output path and ends with a success result holding that path.
C12_TextScenarioDownloads ==
    [][ TextScenario =>
          /\ returned'.kind # "error"
          /\ ipc' = "download"
          /\ download_url' = "http://x/model.glb"
          /\ output_path' # <<>> ]_vars

\* ------------------------------------------ properties of the submit calls
SubmitEnded == spc \in {"returned", "raised"}

\* C13: a submit call (text or image) with a face count outside
\* [40000, 1500000] is rejected before any call to the remote service: no
\* payload is handed to call_json and the call ends with an error.
C13_FaceCountRejected ==
    (kind = "submit" /\ spc # "idle"
       /\ sargs.face_count \notin MinFaceCount..MaxFaceCount) =>
        /\ sent = <<>>
        /\ SubmitEnded => sout.raised

\* C14: for text_to_3d and image_to_3d the submitted payload has the field
\* PolygonType if and only if generate_type is "LowPoly", and then its value
\* is the caller's polygon_type.
C14_PolygonTypeIffLowPoly ==
    \A k \in 1..Len(sent) :
        /\ ("PolygonType" \in DOMAIN sent[k]) <=> (sargs.generate_type = "LowPoly")
        /\ ("PolygonType" \in DOMAIN sent[k]) =>
               sent[k]["PolygonType"] = sargs.polygon_type
        /\ sent[k]["GenerateType"] = sargs.generate_type

\* An image submit for LowPoly with quadrilaterals has returned its job.
C14_Witness ==
    /\ sop = "image"
    /\ spc = "returned"
    /\ sargs.generate_type = "LowPoly"
    /\ sargs.polygon_type = "quadrilateral"
    /\ Len(sent) = 1
    /\ sent[1]["PolygonType"] = "quadrilateral"
    /\ "ImageBase64" \in DOMAIN sent[1]

\* The remote gave no job identifier: the call raised, or the response has no
\* JobId field, or an empty one.
JobIdMissing(ans) == ~ans.raises /\ "JobId" \notin DOMAIN ans.response

JobIdEmpty(ans) ==
    ~ans.raises /\ "JobId" \in DOMAIN ans.response /\ ans.response["JobId"] = ""

\* C15 as claimed: the submit call fails with an error, and returns no job
\* identifier, whenever the remote call raises or the response has no job
\* identifier (JobId missing or empty).
C15_Original ==
    (SubmitEnded /\ (sanswer.raises \/ JobIdMissing(sanswer) \/ JobIdEmpty(sanswer))) =>
        /\ sout.raised
        /\ spc = "raised"

\* C15: the submit call raises exactly when the remote call raises or the
\* response has no JobId field; for an empty JobId it returns the empty
\* string without an error; the caller gets a non-empty identifier only when
\* the response holds one, and then it is that one.
C15_SubmitOutcome ==
    SubmitEnded =>
        /\ sout.raised <=> (sanswer.raises \/ JobIdMissing(sanswer))
        /\ (spc = "raised") <=> sout.raised
        /\ JobIdEmpty(sanswer) => (spc = "returned" /\ sout.value = "")
        /\ sout.raised => sout.value = ""
        /\ ~sout.raised => sout.value = sanswer.response["JobId"]
        /\ Len(sent) = 1

\* The remote answered with an empty JobId and the call returned it.
C15_Witness ==
    /\ spc = "returned"
    /\ JobIdEmpty(sanswer)
    /\ sout = [raised |-> FALSE, value |-> "", exc |-> NoExc]

\* This step is a submit call that raises.
SubmitRaisesNow ==
    /\ Len(submit_log') = Len(submit_log) + 1
    /\ submit_log'[Len(submit_log')].raised

\* The wait of the workflow has raised the error of a status query.
QueryHasRaised ==
    /\ ipc = "wait"
    /\ wpc = "raised"
    /\ \E e \in RemoteFailures :
         wait_error = QueryErrorMessage(e) /\ wait_exc = QueryErrorClass(e)

\* This step is a status query that raises.
QueryRaisesNow ==
    /\ wpc = "query"
    /\ n_queries' = n_queries + 1
    /\ calls' = calls
    /\ has_callback

\* After this step the workflow is about to submit the same input again.
SubmitsAgain == bpc' = "running" /\ ipc' = "submit" /\ idx' = idx

\* C16: submission and query errors are not retried: after a submit call or
\* a status query raised, the workflow makes no further submit or query for
\* that request, and the first status query that raises ends the wait with
\* that error.
C16_NoRetry ==
    [][ /\ SubmitRaisesNow => ~SubmitsAgain
        /\ QueryHasRaised => ~SubmitsAgain
        /\ QueryRaisesNow =>
              /\ wpc' = "raised"
              /\ \E e \in RemoteFailures :
                   wait_error' = QueryErrorMessage(e) /\ wait_exc' = QueryErrorClass(e) ]_vars

\* --------------------------------------------- properties of the download
DownloadEnded == dpc \in {"returned", "raised"}

\* The HTTP statuses that report success.
SuccessStatuses == 200..299

\* C17: when download_model fails, no partly written file is left at the
\* destination: it is absent, or it holds what it held before the call.
C17_NoPartialFile ==
    (kind = "download" /\ dpc = "raised") =>
        (dest = "absent" \/ dest = dbefore)

\* C18 as claimed: download_model fails exactly when the response status is
\* not a success status; for every success status it writes the body to the
\* destination and returns the destination path.
C18_Original ==
    (kind = "download" /\ DownloadEnded /\ danswer.connects) =>
        /\ (dpc = "raised") <=> (danswer.http \notin SuccessStatuses)
        /\ danswer.http \in SuccessStatuses =>
               /\ dout.value = dargs.output_path
               /\ dest \in Bodies

\* C18: download_model fails whenever the response status is not 200, other
\* success statuses included, and leaves the destination as it was; it also
\* fails when no response comes or reading the body raises.  It returns the
\* destination path exactly for a status 200 whose body was read, and the
\* destination then holds that body.
C18_DownloadOutcome ==
    (kind = "download" /\ DownloadEnded) =>
        /\ (dpc = "returned") <=>
               (danswer.connects /\ danswer.http = 200 /\ danswer.reads)
        /\ (dpc = "raised") <=> dout.raised
        /\ dpc = "returned" =>
               /\ dout.value = dargs.output_path
               /\ dest \in Bodies
        /\ (danswer.connects /\ danswer.http # 200) =>
               /\ dout.exc = Exc("Exception",
                                 <<"Failed to download model: HTTP ", danswer.http>>)
               /\ dest = dbefore

\* A response with the success status 206 was refused and the older model at
\* the destination is untouched.
C18_Witness ==
    /\ dpc = "raised"
    /\ danswer.connects
    /\ danswer.http = 206
    /\ dbefore = "old model"
    /\ dest = "old model"

InNode == kind \in {"text", "image"} /\ bpc \in {"init", "running"}

\* generate_3d has returned the error-prefixed string for the message msg.
ReturnsError(msg) ==
    /\ bpc' = "done"
    /\ returned'.kind = "error"
    /\ returned'.result = << <<"Error: ">> \o msg >>

\* This step is one in which a step of the single generation fails: the
\* submit call raises, or the wait has raised (a query error, a failed job
\* or a timeout) and its caller takes the exception.
NodeStepFails ==
    \/ SubmitRaisesNow
    \/ (ipc = "wait" /\ wpc = "raised")

\* C20: in a single generation every failure of a step ends generate_3d by
\* returning, not raising: the returned value is a one-element result whose
\* string is "Error: " followed by the failure's message.
C20_FailureReturnsError ==
    [][ InNode =>
          /\ bpc' # "raised"
          /\ (bpc' = "done" /\ returned'.kind # "model") =>
                /\ returned'.kind = "error"
                /\ Len(returned'.result) = 1
                /\ Head(returned'.result[1]) = "Error: "
          /\ (ipc = "wait" /\ wpc = "raised") => ReturnsError(wait_error)
          /\ NodeStepFails => bpc' = "done" ]_vars

\* -------------------------------------- properties of the model selection
\* The positions of the result files whose type is exactly "GLB".
GlbPositions(files) == {k \in 1..Len(files) : files[k].type = "GLB"}

\* The first of them.
FirstGlb(files) ==
    CHOOSE k \in GlbPositions(files) : \A l \in GlbPositions(files) : k <= l

\* The wait of a batch item has returned its DONE result.
BatchItemDone == kind = "batch" /\ ipc = "wait" /\ wpc = "returned"

\* This step records the item as failed for lack of a model file.
RecordsNoGlb ==
    /\ Len(results') = Len(results) + 1
    /\ results'[Len(results')] =
          <<ImagePath(CurrentItem), FALSE, <<"No GLB file in results">>>>

Answered ==
    IF wpc = "raised" /\ ~TimedOut /\ status # "FAIL"
    THEN n_queries - 1
    ELSE n_queries

\* C22: with a progress callback supplied, every status query that returned
\* a response is followed, within its tick, by at least one call of the
\* callback carrying that tick's status, the tick that sees FAIL included.
C22_CallbackEveryTick ==
    has_callback =>
        \A t \in 1..Answered :
            \E k \in 1..Len(calls) : calls[k].tick = t

\* The second query answered FAIL and the callback was called in that tick.
C22_Witness ==
    /\ kind = "wait"
    /\ has_callback
    /\ wpc = "raised"
    /\ status = "FAIL"
    /\ n_queries = 2
    /\ \E k \in 1..Len(calls) : calls[k].tick = 2 /\ calls[k].status = "FAIL"

\* ------------------------------------- properties of the input validation
\* A string that is empty once stripped.
Blank(str) == Strip(str) = <<>>

\* No request has gone to the remote service.
NoNetworkCall ==
    /\ submit_log = <<>>
    /\ n_queries = 0
    /\ queried = {}
    /\ fetched = {}

\* C23: empty input is rejected before any network call: the text node
\* makes no submit for a prompt that is blank after trimming, and the
\* configuration node raises instead of building a configuration when the
\* secret id or the secret key is blank after trimming, so that no node
\* builds a client from blank credentials.
C23_BlankInputRejected ==
    /\ (kind = "text" /\ Blank(prompt)) =>
          /\ NoNetworkCall
          /\ client = NoClient
          /\ bpc = "done" => returned.kind = "error"
    /\ (cpc # "call" /\ (Blank(cargs.secret_id) \/ Blank(cargs.secret_key))) =>
          /\ cpc = "raised"
          /\ cout.class = "ValueError"
          /\ config = NoConfig
          /\ client = NoClient
          /\ bpc = "init"
          /\ NoNetworkCall
    /\ (kind # "script" /\ client # NoClient) =>
          /\ ~Blank(client.secret_id)
          /\ ~Blank(client.secret_key)
          /\ client.secret_id = Strip(cargs.secret_id)
          /\ client.secret_key = Strip(cargs.secret_key)

\* The text node, given a configuration built from padded credentials, has
\* returned the error for a prompt of blanks without any request.
C23_Witness ==
    /\ kind = "text"
    /\ cpc = "built"
    /\ cargs.secret_id = <<" ", "i", " ">>
    /\ config.secret_id = <<"i">>
    /\ prompt = <<" ">>
    /\ bpc = "done"
    /\ returned = [kind |-> "error",
                   result |-> <<<<"Error: ", "Prompt cannot be empty">>>>]
    /\ NoNetworkCall

\* ------------------------------------------------ properties of the cleanup
\* The entries of a directory, as a set.
EntriesOf(dir) == Range(dir.entries)

RegularFiles(dir) == {e \in EntriesOf(dir) : e.type = "file"}

\* The regular files whose name does not begin with a dot.
VisibleFiles(dir) == {e \in RegularFiles(dir) : ~e.hidden}

\* What the latest call removed from the directory.
Deleted == EntriesOf(fbefore) \ EntriesOf(directory)

\* e was modified more than max_age_hours before the call: its age in
\* hours, rounded up, exceeds max_age_hours.
OlderThanMaxAge(e) ==
    (fargs.current_time - e.mtime + SecondsPerHour - 1) \div SecondsPerHour
        > fargs.max_age_hours

\* f was modified after e, or at the same time and is listed before it.
Precedes(f, e) == f.mtime > e.mtime \/ (f.mtime = e.mtime /\ f.name < e.name)

\* e is one of the max_files most recently modified files of S.
AmongMostRecent(e, S) ==
    Cardinality({f \in S : Precedes(f, e)}) < fargs.max_files

\* delete_file logged a failure in the latest call.
DeleteFailed == \E k \in 1..Len(flog) : flog[k].level = "error"

\* C24 as claimed: every regular file is deleted exactly when it is older
\* than max_age_hours or not among the max_files most recently modified
\* files, and the count returned is the number of files deleted.
C24_Original ==
    fpc = "cleaned" =>
        /\ \A e \in RegularFiles(fbefore) :
              e \in Deleted <=>
                  (OlderThanMaxAge(e) \/ ~AmongMostRecent(e, RegularFiles(fbefore)))
        /\ fout = Cardinality(Deleted)

\* C24: cleanup_old_files deletes an entry exactly when it is a regular file
\* whose name does not begin with a dot, it is older than max_age_hours or
\* not among the max_files most recently modified of those files, and
\* os.remove does not fail on it; it returns the number of files deleted.
C24_DeletesOldOrExcess ==
    fpc = "cleaned" =>
        /\ \A e \in EntriesOf(fbefore) :
              e \in Deleted <=>
                  /\ e \in VisibleFiles(fbefore)
                  /\ ~e.locked
                  /\ OlderThanMaxAge(e) \/ ~AmongMostRecent(e, VisibleFiles(fbefore))
        /\ fout = Cardinality(Deleted)
        /\ directory.entries =
              SelectSeq(fbefore.entries, LAMBDA e : e \notin Deleted)

\* Of three files one was deleted for its age and one, an hour old to the
\* second, for being beyond the one file kept.
C24_Witness ==
    /\ fpc = "cleaned"
    /\ fargs.max_age_hours = 1
    /\ fargs.max_files = 1
    /\ Cardinality(VisibleFiles(fbefore)) = 3
    /\ fout = 2
    /\ \E e \in Deleted : e.mtime = SecondsPerHour
    /\ \E e \in Deleted : e.mtime = 0
    /\ \E e \in EntriesOf(directory) : e.mtime = 2 * SecondsPerHour

\* C25 as claimed, for a directory all of whose regular files are listed and
\* can be deleted: cleanup with max_age_hours 0 and max_files 1000000
\* leaves no file, a file modified at the time of the call included, and
\* cleanup with max_age_hours 1000000 and max_files 0 leaves no file.
C25_DeletesEveryFile ==
    (/\ fpc = "cleaned"
     /\ \A e \in RegularFiles(fbefore) : ~e.hidden /\ ~e.locked) =>
        /\ (fargs.max_age_hours = 0 /\ fargs.max_files = 1000000) =>
              RegularFiles(directory) = {}
        /\ (fargs.max_age_hours = 1000000 /\ fargs.max_files = 0) =>
              RegularFiles(directory) = {}

\* C26: cleanup_old_files deletes no directory and returns its count
\* whatever os.remove does: a file whose deletion fails is logged, stays,
\* is not counted, and every other file due for deletion is still handed
\* to delete_file.
C26_FailureIsolated ==
    fpc \in {"cleaned", "again"} =>
        /\ \A e \in EntriesOf(fbefore) : e.type = "dir" => e \in EntriesOf(directory)
        /\ \A e \in VisibleFiles(fbefore) :
              (OlderThanMaxAge(e) \/ ~AmongMostRecent(e, VisibleFiles(fbefore)))
                  => \E k \in 1..Len(fattempts) : fattempts[k] = e.name
        /\ \A e \in VisibleFiles(fbefore) :
              (e.locked /\ \E k \in 1..Len(fattempts) : fattempts[k] = e.name) =>
                  /\ e \in EntriesOf(directory)
                  /\ \E k \in 1..Len(flog) :
                        flog[k] = [level |-> "error",
                                   msg |-> <<"Error deleting file ", e.name>>]
        /\ fout = Cardinality({k \in 1..Len(fattempts) :
                                  \E e \in Deleted : e.name = fattempts[k]})
        /\ fout = Cardinality(Deleted)

\* The deletion of one file failed and a file handed to delete_file after
\* it was deleted; a subdirectory is still there.
C26_Witness ==
    /\ fpc = "cleaned"
    /\ Len(fattempts) = 2
    /\ \E e \in VisibleFiles(directory) : e.locked /\ e.name = fattempts[1]
    /\ \E e \in Deleted : e.name = fattempts[2]
    /\ \E e \in EntriesOf(directory) : e.type = "dir"
    /\ fout = 1
    /\ DeleteFailed

\* No remaining file of S is older than a deleted one.
KeepsTheNewest(S) == \A r \in S, d \in Deleted : r.mtime >= d.mtime

\* C30 as claimed: after a cleanup without a failed deletion at most
\* max_files regular files remain, none of them older than max_age_hours
\* and each modified at least as recently as every deleted file; the same
\* cleanup run again at once deletes nothing and returns 0.
C30_Original ==
    /\ (fpc = "cleaned" /\ ~DeleteFailed) =>
          /\ Cardinality(RegularFiles(directory)) <= fargs.max_files
          /\ \A e \in RegularFiles(directory) : ~OlderThanMaxAge(e)
          /\ KeepsTheNewest(RegularFiles(directory))
    /\ fpc = "again" => (fout = 0 /\ directory = fbefore)

\* C30: after a cleanup without a failed deletion, of the regular files
\* whose name does not begin with a dot at most max_files remain, none of
\* them older than max_age_hours and each modified at least as recently as
\* every deleted file, while every file whose name begins with a dot
\* remains; the same cleanup run again at once deletes nothing and returns
\* 0 (whether or not a deletion failed).
C30_CleanedAndStable ==
    /\ (fpc = "cleaned" /\ ~DeleteFailed) =>
          /\ Cardinality(VisibleFiles(directory)) <= fargs.max_files
          /\ \A e \in VisibleFiles(directory) : ~OlderThanMaxAge(e)
          /\ KeepsTheNewest(VisibleFiles(directory))
          /\ \A e \in RegularFiles(fbefore) : e.hidden => e \in RegularFiles(directory)
    /\ fpc = "again" => (fout = 0 /\ Deleted = {} /\ directory = fbefore)

\* A cleanup keeping one file deleted one of two listed files and left the
\* older file whose name begins with a dot.
C30_Witness ==
    /\ fpc = "cleaned"
    /\ ~DeleteFailed
    /\ fargs.max_files = 1
    /\ fargs.max_age_hours = 1
    /\ fout = 1
    /\ Cardinality(VisibleFiles(directory)) = 1
    /\ \E e \in RegularFiles(directory) : e.hidden
    /\ \E e \in Deleted : e.mtime = SecondsPerHour

\* --------------------------------------- properties of a node's submissions
\* C27: one invocation of generate_3d of a single node submits at most one
\* job, whatever error any of its steps raises: at most one of its submit
\* calls is answered with a job identifier.
C27_AtMostOneSubmit ==
    kind \in {"text", "image"} =>
        Cardinality({k \in 1..Len(submit_log) : submit_log[k].job # ""}) <= 1

\* ------------------------------------- properties of the number of queries
\* The greatest number of status queries of a wait of m seconds polled
\* every pi seconds.
QueryBound(m, pi) == IF m <= 0 THEN 0 ELSE CeilDiv(m, pi)

\* C28: for every poll_interval of at least 1 a wait makes at most
\* ceil(max_wait_time / poll_interval) status queries, whatever the remote
\* answers, and is over once that many have slept; with max_wait_time at
\* most 0 it makes no query and raises the timeout at once.
C28_QueriesBounded ==
    (kind = "wait" /\ wpc # "idle") =>
        /\ poll_interval >= 1
        /\ n_queries <= QueryBound(max_wait_time, poll_interval)
        /\ wpc = "query" => n_queries < QueryBound(max_wait_time, poll_interval)
        /\ n_sleeps = QueryBound(max_wait_time, poll_interval) => TimedOut
        /\ max_wait_time <= 0 => (n_queries = 0 /\ n_sleeps = 0 /\ TimedOut)

\* A wait of 12 seconds polled every 5 has timed out after its third query.
C28_Witness ==
    /\ kind = "wait"
    /\ max_wait_time = 12
    /\ poll_interval = DefaultPollInterval
    /\ n_queries = 3
    /\ n_sleeps = 3
    /\ TimedOut

\* ------------------------------------ properties of the recorded outcomes
\* This step records the outcome of a batch item.
RecordsItem == kind = "batch" /\ Len(results') = Len(results) + 1

\* C29: a batch item is recorded as successful, and its path is in
\* model_paths, only if the wait returned with status DONE, a result file
\* of type "GLB" with a non-empty url was found, and the download was
\* answered with HTTP 200 and wrote the output file; every other item is
\* recorded as failed with the path of the input image in place of an
\* output path.
C29_SuccessOnlyAfterDownload ==
    [][ /\ (kind = "batch" /\ ipc = "wait" /\ ipc' = "download") =>
              /\ wpc = "returned"
              /\ status = "DONE"
              /\ download_url' # ""
              /\ \E k \in GlbPositions(result.result_urls) :
                    result.result_urls[k].url = download_url'
        /\ RecordsItem =>
              LET r == results'[Len(results')]
              IN  /\ r[2] =>
                        /\ ipc = "download"
                        /\ download_url # ""
                        /\ r[1] = OutputPath(CurrentItem)
                        /\ CurrentItem \in fetched'
                        /\ successful' = successful + 1
                  /\ ~r[2] =>
                        /\ r[1] = ImagePath(CurrentItem)
                        /\ fetched' = fetched
                        /\ failed' = failed + 1
                  /\ \A ans \in saved' : ans.connects /\ ans.http = 200 /\ ans.reads
        /\ (kind = "batch" /\ bpc' = "done" /\ returned'.kind = "report") =>
              /\ SplitLines(returned'.model_paths) = ModelPaths(results')
              /\ \A k \in 1..Len(results') :
                    results'[k][2] <=>
                        \E j \in 1..Len(SplitLines(returned'.model_paths)) :
                            SplitLines(returned'.model_paths)[j] = results'[k][1]
              /\ \A k \in 1..Len(results') :
                    ~results'[k][2] => \E i \in Range(image_files) :
                                          results'[k][1] = ImagePath(i) ]_vars

\* A batch of two items has returned: the first was saved after a download
\* answered with 200, the second failed and is recorded under its input path.
C29_Witness ==
    /\ kind = "batch"
    /\ bpc = "done"
    /\ returned.kind = "report"
    /\ Len(results) = 2
    /\ results[1] = <<OutputPath(image_files[1]), TRUE, <<"Success">>>>
    /\ ~results[2][2]
    /\ results[2][1] = ImagePath(image_files[2])
    /\ results[2][3] = <<"Failed to download model: HTTP ", 404>>
    /\ saved = {[connects |-> TRUE, http |-> 200, reads |-> TRUE]}
    /\ SplitLines(returned.model_paths) = <<OutputPath(image_files[1])>>

====
